---- MODULE Spec2Model ----
(***************************************************************************)
(* A model of proxypool-go (src/proxypool.go): a pool of SOCKS proxies,    *)
(* each with an Alive flag and a lastRequest timestamp, selected by       *)
(* GetAvailableProxy and used by Proxy.Get / ProxyPool.Get, with           *)
(* background retests launched as goroutines.                              *)
(*                                                                         *)
(* Time is counted in whole seconds.  The code reads lastRequest only as   *)
(* time.Since(lastRequest) and writes it only as time.Now(), so the model  *)
(* keeps, for each proxy, the value of time.Since(lastRequest): a clock    *)
(* that every Tick advances and line 66 resets to 0.  The clock saturates  *)
(* above both thresholds it is compared with, so time itself is unbounded. *)
(* Every read and every write of a proxy field is a step of its own,       *)
(* because the code takes no lock and uses no atomics: goroutines          *)
(* interleave between any two accesses.                                    *)
(***************************************************************************)
EXTENDS Integers, Sequences, FiniteSets, TLC

\* ---------------------------------------------------------------- bounds
MaxProxies == 2       \* proxies in the pool (records in the source)
NCallers == 2         \* goroutines that call into the pool
MaxBg == 2            \* retest goroutines alive at once, per proxy
MaxLoad == 3          \* calling goroutines plus pooled proxies
RateLimit == 1        \* pool.RateLimit, seconds
RetestDelay == 2      \* pool.RetestDelay, seconds

\* ------------------------------------------------------ program constants
SleepSeconds == 1     \* time.Sleep(time.Second)

Min(a, b) == IF a < b THEN a ELSE b
Max(a, b) == IF a > b THEN a ELSE b
IdleCap == Max(RateLimit, RetestDelay) + 1

ProxyIds == 1..MaxProxies
Callers == 1..NCallers
BG == 0               \* the owner of a fetch made by a retest goroutine
Creator == -2         \* the owner of a test fetch made by Create
Nobody == -1          \* no fetch, no proxy
TestURL == "test"
PageURL == "page"
Outcomes == {"ok", "transport", "read", "status"}

VARIABLES
  proxies,      \* pool.proxies: the admitted proxies, in load order
  Alive,        \* Proxy.Alive
  idle,         \* time.Since(Proxy.lastRequest), seconds, saturating at IdleCap
  launched,     \* retest goroutines started by `go` that have not reached line 66
  bgIn,         \* retest goroutines between line 66 and their write of Alive
  g,            \* the calling goroutines
  newest,       \* history: who runs the fetch that set lastRequest (Nobody once it completed)
  newestOk,     \* history: the outcome of that fetch once it completed
  lastDoneOk,   \* history: the outcome of the fetch that completed last
  routed,       \* history: the fetch that set lastRequest was made by pool.Get
  source,       \* LoadProxies: the lines the scanner delivers
  scanErr,      \* LoadProxies: scanner.Err() after the last line
  lpc,          \* LoadProxies: where the call is
  nextLine,     \* LoadProxies: the line scanner.Scan() delivers next
  lproxies,     \* LoadProxies: the local slice `proxies` (line 116)
  wg,           \* LoadProxies: the WaitGroup counter
  cpc,          \* Create: where each proxy's negotiation goroutine is
  ver,          \* Create: the index into socksVersions of the current iteration
  URL,          \* Proxy.URL
  attempts,     \* history: the test fetches Create made: version, "ok" or "error"
  AliveCount,   \* pool.AliveCount
  AvailableCount  \* pool.AvailableCount

loadVars == <<source, scanErr, lpc, nextLine, lproxies, wg, cpc, ver, URL, attempts,
              AliveCount, AvailableCount>>

vars == <<proxies, Alive, idle, launched, bgIn, g, newest, newestOk, lastDoneOk, routed,
          loadVars>>

\* ------------------------------------------------------------- Proxy.Get
\* time.Since(proxy.lastRequest).Seconds()
Since(p) == idle[p]

\* Mutant of AliveAfter: only a transport error marks the proxy dead.
AliveAfterLax(o) == (o # "transport")

\* The value Proxy.Get leaves in Alive (lines 68-85): true only for HTTP 200
\* with a body read.
AliveAfter(o) == (o = "ok")

\* Mutant of StampAtStart: the attempt is not recorded.
StampNone(p) == idle

\* Line 66: proxy.lastRequest = time.Now(), before the request is issued.
StampAtStart(p) == [idle EXCEPT ![p] = 0]

\* What Proxy.Get returns as the body: the page the server sent for u through
\* p (line 86), nil with an error (lines 71, 78, 83).
Response(p, u, o) == IF o = "ok" THEN <<u, p>> ELSE <<>>

\* Mutant of GetStart: one timestamp shared by all the proxies.
GetStartShared(p, who) ==
  /\ idle' = [q \in ProxyIds |-> 0]
  /\ routed' = [routed EXCEPT ![p] = (who \in Callers /\ g[who].mode = "poolget")]
  /\ newest' = [newest EXCEPT ![p] = who]
  /\ newestOk' = [newestOk EXCEPT ![p] = FALSE]

\* Proxy.Get up to the request being issued (line 66, then line 67 blocks).
GetStart(p, who) ==
  /\ idle' = StampAtStart(p)
  /\ routed' = [routed EXCEPT ![p] = (who \in Callers /\ g[who].mode = "poolget")]
  /\ newest' = [newest EXCEPT ![p] = who]
  /\ newestOk' = [newestOk EXCEPT ![p] = FALSE]

\* Proxy.Get from the response to the return (lines 68-86) with outcome o;
\* isNewest: this fetch is the one that started last through p.
GetFinish(p, o, isNewest) ==
  /\ Alive' = [Alive EXCEPT ![p] = AliveAfter(o)]
  /\ lastDoneOk' = [lastDoneOk EXCEPT ![p] = (o = "ok")]
  /\ IF isNewest
     THEN /\ newest' = [newest EXCEPT ![p] = Nobody]
          /\ newestOk' = [newestOk EXCEPT ![p] = (o = "ok")]
     ELSE UNCHANGED <<newest, newestOk>>

\* ------------------------------------------------- the calling goroutines
\* pc: where the goroutine is; mode: which entry point it called; i: the
\* loop index of GetAvailableProxy; sel: the proxy GetAvailableProxy
\* returned (Nobody with the error); slept: seconds spent in time.Sleep;
\* err: the error GetAvailableProxy returned; reqErr: the outcome of the
\* caller's fetch; body: what pool.Get returned; went: line 93 ran in
\* this iteration; past (history): what the left operand of line 95 saw;
\* log (history): the proxies this call of GetAvailableProxy examined.
NoProxies == "no proxies available"
Idle == [pc |-> "idle", mode |-> "none", i |-> 0, sel |-> Nobody, slept |-> 0,
         err |-> "", reqErr |-> "", body |-> <<>>, went |-> FALSE,
         past |-> FALSE, log |-> <<>>]
Off == [Idle EXCEPT !.pc = "off"]

ScanPcs == {"L92t", "L92a", "L95t", "L95a"}

\* What the caller of GetAvailableProxy does with (proxy, err).
\* ProxyPool.Get: fetch through the proxy, or sleep (lines 149-155).
\* A direct caller (README lines 31-35): holds the result.
Returned(r, p) ==
  LET s == [r EXCEPT !.sel = p, !.err = IF p = Nobody THEN NoProxies ELSE "",
                     !.i = 0, !.went = FALSE, !.past = FALSE]
  IN IF r.mode = "poolget"
     THEN IF s.err = "" THEN [s EXCEPT !.pc = "L150"]
          ELSE [s EXCEPT !.pc = "L155", !.slept = 0]
     ELSE [s EXCEPT !.pc = "got"]

\* Entry of GetAvailableProxy: the range loop over pool.proxies (line 91).
EnterScan(r) ==
  LET s == [r EXCEPT !.i = 1, !.sel = Nobody, !.log = <<>>, !.went = FALSE,
                     !.past = FALSE, !.slept = 0, !.err = "", !.reqErr = "",
                     !.body = <<>>]
  IN IF Len(proxies) = 0 THEN Returned(s, Nobody) ELSE [s EXCEPT !.pc = "L92t"]

\* Mutant of NextProxy: the scan gives up at the first proxy that does not match.
NextProxyStop(r) == Returned(r, Nobody)

\* End of one loop iteration without a match: next proxy, or line 99.
NextProxy(r) ==
  IF r.i < Len(proxies)
  THEN [r EXCEPT !.i = r.i + 1, !.pc = "L92t", !.went = FALSE, !.past = FALSE]
  ELSE Returned(r, Nobody)

\* Line 96: return pool.proxies[i], nil.
Match(r) == Returned(r, proxies[r.i])

\* History: the proxy examined in this iteration, whether line 93 ran for
\* it, and what the two operands of line 95 saw (alive is FALSE when the
\* right operand was not evaluated).
Logged(r, alive) ==
  [r EXCEPT !.log = Append(@, [p |-> proxies[r.i], retest |-> r.went,
                                past |-> r.past, alive |-> alive])]

\* Mutant of PastRateLimit: the cooldown is ignored.
PastRateLimitLax(p) == Since(p) >= 0

\* Mutant of PastRateLimit: the comparison is inclusive.
PastRateLimitIncl(p) == Since(p) >= RateLimit

\* Mutant of PastRetestDelay: the retest is gated by the rate limit.
PastRetestDelayRate(p) == Since(p) > RateLimit

\* The comparisons of lines 92 and 95 (strict).
PastRetestDelay(p) == Since(p) > RetestDelay
PastRateLimit(p) == Since(p) > RateLimit

\* pool.Get(url), lines 146-148: first call of GetAvailableProxy.
CallPoolGet(c) ==
  /\ g[c].pc \in {"idle", "ret", "got"}
  /\ g' = [g EXCEPT ![c] = EnterScan([Idle EXCEPT !.mode = "poolget"])]
  /\ UNCHANGED <<proxies, Alive, idle, launched, bgIn, newest, newestOk, lastDoneOk, routed, loadVars>>

\* pool.GetAvailableProxy() called directly (README line 31).
CallGetAvailableProxy(c) ==
  /\ g[c].pc \in {"idle", "ret", "got"}
  /\ g' = [g EXCEPT ![c] = EnterScan([Idle EXCEPT !.mode = "direct"])]
  /\ UNCHANGED <<proxies, Alive, idle, launched, bgIn, newest, newestOk, lastDoneOk, routed, loadVars>>

\* Line 92, left operand: read lastRequest.
ScanRetestTime(c) ==
  /\ g[c].pc = "L92t"
  /\ g' = [g EXCEPT ![c].pc = IF PastRetestDelay(proxies[g[c].i]) THEN "L92a" ELSE "L95t"]
  /\ UNCHANGED <<proxies, Alive, idle, launched, bgIn, newest, newestOk, lastDoneOk, routed, loadVars>>

\* Line 92, right operand: read Alive; line 93: go Get(TestURL).
ScanRetestAlive(c) ==
  LET p == proxies[g[c].i] IN
  /\ g[c].pc = "L92a"
  /\ IF ~Alive[p]
     THEN /\ launched[p] + bgIn[p] < MaxBg
          /\ launched' = [launched EXCEPT ![p] = @ + 1]
          /\ g' = [g EXCEPT ![c].pc = "L95t", ![c].went = TRUE]
     ELSE /\ g' = [g EXCEPT ![c].pc = "L95t"]
          /\ UNCHANGED launched
  /\ UNCHANGED <<proxies, Alive, idle, bgIn, newest, newestOk, lastDoneOk, routed, loadVars>>

\* Line 95, left operand: read lastRequest.
ScanRateTime(c) ==
  /\ g[c].pc = "L95t"
  /\ LET r == [g[c] EXCEPT !.past = (idle[proxies[g[c].i]] > RateLimit)]
     IN g' = [g EXCEPT ![c] = IF PastRateLimit(proxies[g[c].i])
                              THEN [r EXCEPT !.pc = "L95a"]
                              ELSE NextProxy(Logged(r, FALSE))]
  /\ UNCHANGED <<proxies, Alive, idle, launched, bgIn, newest, newestOk, lastDoneOk, routed, loadVars>>

\* Line 95, right operand: read Alive; line 96: return.
ScanRateAlive(c) ==
  /\ g[c].pc = "L95a"
  /\ LET r == Logged(g[c], Alive[proxies[g[c].i]])
     IN g' = [g EXCEPT ![c] = IF Alive[proxies[g[c].i]] THEN Match(r) ELSE NextProxy(r)]
  /\ UNCHANGED <<proxies, Alive, idle, launched, bgIn, newest, newestOk, lastDoneOk, routed, loadVars>>

\* The URL of a caller's fetch: the argument of pool.Get (line 150).
FetchURL(c) == PageURL

\* proxy.Get(url) by a caller, up to the request (line 150 / README line 35).
FetchStart(c) ==
  /\ g[c].pc = "L150" \/ (g[c].pc = "got" /\ g[c].sel # Nobody)
  /\ GetStart(g[c].sel, c)
  /\ g' = [g EXCEPT ![c].pc = "L67", ![c].log = <<>>]
  /\ UNCHANGED <<proxies, Alive, launched, bgIn, lastDoneOk, loadVars>>

\* Mutant of AfterFetch: pool.Get returns whatever the fetch returned.
AfterFetchAny(r, c, o) ==
  IF r.mode = "poolget"
  THEN [r EXCEPT !.pc = "ret", !.reqErr = o, !.body = Response(r.sel, FetchURL(c), o)]
  ELSE Idle

\* What the caller does with (r, reqErr): pool.Get returns the body or
\* sleeps (lines 151-155); a direct caller is done.
AfterFetch(r, c, o) ==
  IF r.mode = "poolget"
  THEN IF o = "ok" THEN [r EXCEPT !.pc = "ret", !.reqErr = o, !.body = Response(r.sel, FetchURL(c), o)]
       ELSE [r EXCEPT !.pc = "L155", !.reqErr = o, !.slept = 0]
  ELSE Idle

\* Mutant of FetchFinish: the attempt is recorded again when it completes.
FetchFinishStamps(c, o) ==
  /\ g[c].pc = "L67"
  /\ GetFinish(g[c].sel, o, newest[g[c].sel] = c)
  /\ idle' = [idle EXCEPT ![g[c].sel] = 0]
  /\ g' = [g EXCEPT ![c] = AfterFetch(g[c], c, o)]
  /\ UNCHANGED <<proxies, launched, bgIn, routed, loadVars>>

\* The caller's fetch completes with outcome o.
FetchFinish(c, o) ==
  /\ g[c].pc = "L67"
  /\ GetFinish(g[c].sel, o, newest[g[c].sel] = c)
  /\ g' = [g EXCEPT ![c] = AfterFetch(g[c], c, o)]
  /\ UNCHANGED <<proxies, idle, launched, bgIn, routed, loadVars>>

\* time.Sleep(time.Second) is over (line 155), back to line 148.
CanWake(r) == r.slept >= SleepSeconds

Wake(c) ==
  /\ g[c].pc = "L155"
  /\ CanWake(g[c])
  /\ g' = [g EXCEPT ![c] = EnterScan(g[c])]
  /\ UNCHANGED <<proxies, Alive, idle, launched, bgIn, newest, newestOk, lastDoneOk, routed, loadVars>>

\* ------------------------------------------------- the retest goroutines
\* go pool.proxies[i].Get(pool.TestURL): the goroutine runs line 66.
RetestStart(p) ==
  /\ launched[p] > 0
  /\ launched' = [launched EXCEPT ![p] = @ - 1]
  /\ bgIn' = [bgIn EXCEPT ![p] = @ + 1]
  /\ GetStart(p, BG)
  /\ UNCHANGED <<proxies, Alive, g, lastDoneOk, loadVars>>

\* A retest's fetch completes; its result is dropped.  With several
\* retests in flight, the one that completes may or may not be the one
\* that started last.
RetestFinish(p, o) ==
  /\ bgIn[p] > 0
  /\ bgIn' = [bgIn EXCEPT ![p] = @ - 1]
  /\ \E isNewest \in BOOLEAN :
       /\ isNewest => newest[p] = BG
       /\ (newest[p] = BG /\ bgIn[p] = 1) => isNewest
       /\ GetFinish(p, o, isNewest)
  /\ UNCHANGED <<proxies, idle, launched, g, routed, loadVars>>

\* ------------------------------------------------------------------ time
\* One second passes: every clock advances.
Tick ==
  /\ idle' = [p \in ProxyIds |-> Min(idle[p] + 1, IdleCap)]
  /\ g' = [c \in Callers |->
            IF g[c].pc = "L155" THEN [g[c] EXCEPT !.slept = Min(@ + 1, SleepSeconds)]
            ELSE g[c]]
  /\ UNCHANGED <<proxies, Alive, launched, bgIn, newest, newestOk, lastDoneOk, routed, loadVars>>

\* ------------------------------------------------------------ loading
\* A line of the source: well formed, with a port that is no number, or
\* without a colon.
Lines == {"ok", "badport", "nocolon"}

\* socksVersions := [2]int{5, 4} (line 47)
SocksVersions == <<5, 4>>

\* fmt.Sprintf("socks%d://%s:%d", version, proxy.ip, proxy.port) (line 49)
ProxyURL(version, r) == <<"socks", version, r>>
NoURL == <<>>

\* os.Open succeeded (line 110); a failure ends the process in log.Fatal.
LoadOpen ==
  /\ lpc = "L110"
  /\ \E ok \in BOOLEAN : lpc' = IF ok THEN "L119" ELSE "fatal"
  /\ UNCHANGED <<proxies, Alive, idle, launched, bgIn, g, newest, newestOk, lastDoneOk, routed>>
  /\ UNCHANGED <<source, scanErr, nextLine, lproxies, wg, cpc, ver, URL, attempts,
                 AliveCount, AvailableCount>>

\* One iteration of the scanner loop (lines 119-127): split the line, build
\* the Proxy, append it, wg.Add(1), go proxy.Create.  line[1] of a line
\* without a colon is out of range: the process panics.  The error of
\* strconv.Atoi is dropped: the port is 0.
LoadLine ==
  /\ lpc = "L119"
  /\ nextLine <= Len(source)
  /\ IF source[nextLine] = "nocolon"
     THEN /\ lpc' = "panic"
          /\ UNCHANGED <<nextLine, lproxies, wg, cpc>>
     ELSE /\ lproxies' = Append(lproxies, nextLine)
          /\ wg' = wg + 1
          /\ cpc' = [cpc EXCEPT ![nextLine] = "L49"]
          /\ nextLine' = nextLine + 1
          /\ UNCHANGED lpc
  /\ UNCHANGED <<proxies, Alive, idle, launched, bgIn, g, newest, newestOk, lastDoneOk, routed>>
  /\ UNCHANGED <<source, scanErr, ver, URL, attempts, AliveCount, AvailableCount>>

\* scanner.Scan() returns false: end of the source or a read error.
LoadEndOfSource ==
  /\ lpc = "L119"
  /\ nextLine > Len(source)
  /\ lpc' = "L129"
  /\ UNCHANGED <<proxies, Alive, idle, launched, bgIn, g, newest, newestOk, lastDoneOk, routed>>
  /\ UNCHANGED <<source, scanErr, nextLine, lproxies, wg, cpc, ver, URL, attempts,
                 AliveCount, AvailableCount>>

\* Create, lines 49-56: bind the proxy to the current version and start
\* the test fetch.
CreateTry(r) ==
  /\ lpc \notin {"fatal", "panic"}
  /\ cpc[r] = "L49"
  /\ URL' = [URL EXCEPT ![r] = ProxyURL(SocksVersions[ver[r]], r)]
  /\ GetStart(r, Creator)
  /\ cpc' = [cpc EXCEPT ![r] = "L67"]
  /\ UNCHANGED <<proxies, Alive, launched, bgIn, g, lastDoneOk>>
  /\ UNCHANGED <<source, scanErr, lpc, nextLine, lproxies, wg, ver, attempts,
                 AliveCount, AvailableCount>>

\* Mutant of AfterTest: no break, every version is tried.
AfterTestNoBreak(v, o) ==
  IF v = Len(SocksVersions) THEN [pc |-> "L61", ver |-> v]
  ELSE [pc |-> "L49", ver |-> v + 1]

\* Lines 57-60: where Create goes after a test fetch with outcome o at
\* index v of socksVersions: break on success, else the next version.
AfterTest(v, o) ==
  IF o = "ok" \/ v = Len(SocksVersions) THEN [pc |-> "L61", ver |-> v]
  ELSE [pc |-> "L49", ver |-> v + 1]

\* The test fetch of Create completes with outcome o.
CreateTested(r, o) ==
  /\ lpc \notin {"fatal", "panic"}
  /\ cpc[r] = "L67"
  /\ GetFinish(r, o, TRUE)
  /\ attempts' = [attempts EXCEPT ![r] = Append(@, [ver |-> SocksVersions[ver[r]], res |-> IF o = "ok" THEN "ok" ELSE "error"])]
  /\ cpc' = [cpc EXCEPT ![r] = AfterTest(ver[r], o).pc]
  /\ ver' = [ver EXCEPT ![r] = AfterTest(ver[r], o).ver]
  /\ UNCHANGED <<proxies, idle, launched, bgIn, g, routed>>
  /\ UNCHANGED <<source, scanErr, lpc, nextLine, lproxies, wg, URL, AliveCount, AvailableCount>>

\* wg.Done() (line 61).
CreateDone(r) ==
  /\ lpc \notin {"fatal", "panic"}
  /\ cpc[r] = "L61"
  /\ wg' = wg - 1
  /\ cpc' = [cpc EXCEPT ![r] = "done"]
  /\ UNCHANGED <<proxies, Alive, idle, launched, bgIn, g, newest, newestOk, lastDoneOk, routed>>
  /\ UNCHANGED <<source, scanErr, lpc, nextLine, lproxies, ver, URL, attempts,
                 AliveCount, AvailableCount>>

\* Mutant of LoadWait: LoadProxies goes on without waiting for the group.
LoadWaitSkip ==
  /\ lpc = "L129"
  /\ lpc' = "L131"
  /\ UNCHANGED <<proxies, Alive, idle, launched, bgIn, g, newest, newestOk, lastDoneOk, routed>>
  /\ UNCHANGED <<source, scanErr, nextLine, lproxies, wg, cpc, ver, URL, attempts,
                 AliveCount, AvailableCount>>

\* wg.Wait() returns (line 129).
LoadWait ==
  /\ lpc = "L129"
  /\ wg = 0
  /\ lpc' = "L131"
  /\ UNCHANGED <<proxies, Alive, idle, launched, bgIn, g, newest, newestOk, lastDoneOk, routed>>
  /\ UNCHANGED <<source, scanErr, nextLine, lproxies, wg, cpc, ver, URL, attempts,
                 AliveCount, AvailableCount>>

\* Mutant of Survivors: every proxy of the local slice is admitted.
SurvivorsAll(ps) == ps

\* Lines 131-135: the proxies of the local slice that are Alive, in order.
Survivors(ps) == SelectSeq(ps, LAMBDA r : Alive[r])

LoadAdmit ==
  /\ lpc = "L131"
  /\ proxies' = proxies \o Survivors(lproxies)
  /\ lpc' = "L137"
  /\ UNCHANGED <<Alive, idle, launched, bgIn, g, newest, newestOk, lastDoneOk, routed>>
  /\ UNCHANGED <<source, scanErr, nextLine, lproxies, wg, cpc, ver, URL, attempts,
                 AliveCount, AvailableCount>>

\* UpdateCounts (lines 160-171).
CountAlive(ps) == Cardinality({j \in 1..Len(ps) : Alive[ps[j]]})
CountAvailable(ps) == Cardinality({j \in 1..Len(ps) : Alive[ps[j]] /\ PastRateLimit(ps[j])})

\* Lines 137-142: return scanner.Err(), or UpdateCounts and return nil.
LoadReturn ==
  /\ lpc = "L137"
  /\ IF scanErr
     THEN /\ lpc' = "failed"
          /\ UNCHANGED <<AliveCount, AvailableCount>>
     ELSE /\ lpc' = "returned"
          /\ AliveCount' = CountAlive(proxies)
          /\ AvailableCount' = CountAvailable(proxies)
  /\ UNCHANGED <<proxies, Alive, idle, launched, bgIn, g, newest, newestOk, lastDoneOk, routed>>
  /\ UNCHANGED <<source, scanErr, nextLine, lproxies, wg, cpc, ver, URL, attempts>>

\* The load variables once LoadProxies has returned nil with n proxies admitted.
Loaded(n) ==
  /\ source = [j \in 1..n |-> "ok"]
  /\ scanErr = FALSE
  /\ lpc = "returned"
  /\ nextLine = n + 1
  /\ lproxies = [j \in 1..n |-> j]
  /\ wg = 0
  /\ cpc = [r \in ProxyIds |-> IF r <= n THEN "done" ELSE "none"]
  /\ ver = [r \in ProxyIds |-> 1]
  /\ URL = [r \in ProxyIds |-> IF r <= n THEN ProxyURL(SocksVersions[1], r) ELSE NoURL]
  /\ attempts = [r \in ProxyIds |-> IF r <= n THEN <<[ver |-> SocksVersions[1], res |-> "ok"]>> ELSE <<>>]
  /\ AliveCount = n
  /\ AvailableCount = 0

\* A fresh pool (NewProxyPool, lines 103-106) and a source to load.
InitLoad ==
  /\ \E n \in 0..MaxProxies : source \in [1..n -> Lines]
  /\ scanErr \in BOOLEAN
  /\ lpc = "L110"
  /\ nextLine = 1
  /\ lproxies = <<>>
  /\ wg = 0
  /\ cpc = [r \in ProxyIds |-> "none"]
  /\ ver = [r \in ProxyIds |-> 1]
  /\ URL = [r \in ProxyIds |-> NoURL]
  /\ attempts = [r \in ProxyIds |-> <<>>]
  /\ AliveCount = 0
  /\ AvailableCount = 0
  /\ proxies = <<>>
  /\ Alive = [p \in ProxyIds |-> FALSE]
  /\ idle = [p \in ProxyIds |-> IdleCap]
  /\ launched = [p \in ProxyIds |-> 0]
  /\ bgIn = [p \in ProxyIds |-> 0]
  /\ g = [c \in Callers |-> Off]
  /\ newest = [p \in ProxyIds |-> Nobody]
  /\ newestOk = [p \in ProxyIds |-> FALSE]
  /\ lastDoneOk = [p \in ProxyIds |-> FALSE]
  /\ routed = [p \in ProxyIds |-> FALSE]

\* ------------------------------------------------------- specification
\* The pool after LoadProxies returned: every admitted proxy passed its
\* test fetch (Alive) at load time.
Init ==
  /\ \E n \in 0..MaxProxies, a \in 1..NCallers :
       /\ n + a <= MaxLoad
       /\ proxies = [j \in 1..n |-> j]
       /\ g = [c \in Callers |-> IF c <= a THEN Idle ELSE Off]
       /\ Alive = [p \in ProxyIds |-> p <= n]
       /\ idle = [p \in ProxyIds |-> IF p <= n THEN 0 ELSE IdleCap]
       /\ Loaded(n)
  /\ launched = [p \in ProxyIds |-> 0]
  /\ bgIn = [p \in ProxyIds |-> 0]
  /\ newest = [p \in ProxyIds |-> Nobody]
  /\ newestOk = [p \in ProxyIds |-> TRUE]
  /\ lastDoneOk = [p \in ProxyIds |-> TRUE]
  /\ routed = [p \in ProxyIds |-> FALSE]

Next ==
  \/ Tick
  \/ \E c \in Callers : CallPoolGet(c)
  \/ \E c \in Callers : CallGetAvailableProxy(c)
  \/ \E c \in Callers : ScanRetestTime(c)
  \/ \E c \in Callers : ScanRetestAlive(c)
  \/ \E c \in Callers : ScanRateTime(c)
  \/ \E c \in Callers : ScanRateAlive(c)
  \/ \E c \in Callers : FetchStart(c)
  \/ \E c \in Callers, o \in Outcomes : FetchFinish(c, o)
  \/ \E c \in Callers : Wake(c)
  \/ \E p \in ProxyIds : RetestStart(p)
  \/ \E p \in ProxyIds, o \in Outcomes : RetestFinish(p, o)

\* One step of caller c's call of GetAvailableProxy.
ScanStep(c) ==
  \/ ScanRetestTime(c)
  \/ ScanRetestAlive(c)
  \/ ScanRateTime(c)
  \/ ScanRateAlive(c)

Spec == Init /\ [][Next]_vars

\* LoadProxies on a fresh pool, up to its return.
NextLoad ==
  \/ Tick
  \/ LoadOpen
  \/ LoadLine
  \/ LoadEndOfSource
  \/ \E r \in ProxyIds : CreateTry(r)
  \/ \E r \in ProxyIds, o \in Outcomes : CreateTested(r, o)
  \/ \E r \in ProxyIds : CreateDone(r)
  \/ LoadWait
  \/ LoadAdmit
  \/ LoadReturn

SpecLoad == InitLoad /\ [][NextLoad]_vars

TypeOK ==
  /\ \A p \in ProxyIds : idle[p] \in 0..IdleCap /\ Alive[p] \in BOOLEAN

\* ------------------------------------------------------------ helpers
Admitted == {proxies[j] : j \in 1..Len(proxies)}

\* GetAvailableProxy has just returned to caller c.
JustReturned(c) == g[c].pc \in {"L150", "got"} \/ (g[c].pc = "L155" /\ g[c].err = NoProxies)

\* A log entry of a proxy that was alive and past its cooldown when examined.
Qualified(e) == e.past /\ e.alive

\* ======================================================== the claims

\* C1 (as stated): for every admitted proxy, Alive is true exactly when the
\* most recently started fetch through it that has completed succeeded.  In
\* particular, once the fetch that set lastRequest has completed, Alive
\* equals its outcome, whatever another goroutine's older fetch does later.
C1_AliveIsNewestOutcome ==
  \A p \in Admitted : newest[p] = Nobody => (Alive[p] <=> newestOk[p])

\* C1 (amended): for every admitted proxy, Alive is true exactly when the
\* fetch through it that completed last (the last writer of Alive) returned
\* HTTP 200 with a readable body.
C1_AliveIsLastCompleted ==
  \A p \in Admitted : Alive[p] <=> lastDoneOk[p]

\* C1 witness: a fetch that started later succeeded and completed, then an
\* older fetch through the same proxy failed and left the proxy dead.
C1_Witness ==
  \E p \in Admitted : newest[p] = Nobody /\ newestOk[p] /\ ~lastDoneOk[p] /\ ~Alive[p]

\* C2 (as stated): at the instant GetAvailableProxy returns a proxy, that
\* proxy's lastRequest lies at least RateLimit seconds in the past, under
\* every interleaving.
C2_ReturnedPastCooldown ==
  [][\A c \in Callers :
       (g[c].pc \in ScanPcs /\ g'[c].pc \in {"L150", "got"} /\ g'[c].sel # Nobody)
         => idle'[g'[c].sel] >= RateLimit]_vars

\* C3 (as stated): no retest fetch starts (line 66 in a retest goroutine)
\* less than RetestDelay seconds after the start of the previous fetch
\* through the same proxy.
C3_RetestSpacing ==
  [][\A p \in ProxyIds : launched'[p] < launched[p] => idle[p] >= RetestDelay]_vars

\* C4 (as stated): two requests that pool.Get routes through the same proxy
\* start at least RateLimit seconds apart.  Here: when pool.Get starts a
\* request through a proxy whose previous fetch was started by pool.Get too,
\* at least RateLimit seconds lie between the two starts.
C4_RoutedSpacing ==
  [][\A c \in Callers :
       (g[c].pc = "L150" /\ g'[c].pc = "L67" /\ routed[g[c].sel])
         => idle[g[c].sel] >= RateLimit]_vars

\* The goroutines whose next step writes / reads field f of proxy p.
NWriters(p, f) ==
  Cardinality({c \in Callers : /\ g[c].sel = p
                               /\ \/ f = "lastRequest" /\ g[c].pc = "L150"
                                  \/ f = "Alive" /\ g[c].pc = "L67"})
  + (IF f = "lastRequest" THEN launched[p] ELSE bgIn[p])

NReaders(p, f) ==
  Cardinality({c \in Callers : /\ g[c].pc \in ScanPcs
                               /\ proxies[g[c].i] = p
                               /\ \/ f = "lastRequest" /\ g[c].pc \in {"L92t", "L95t"}
                                  \/ f = "Alive" /\ g[c].pc \in {"L92a", "L95a"}})

\* C5 (as stated): no reachable state has a goroutine about to write Alive
\* or lastRequest of a proxy while another goroutine is about to read or
\* write the same field.  The code has no lock, atomic or channel between
\* them: accesses that are enabled together are unordered.
C5_NoDataRace ==
  \A p \in Admitted : \A f \in {"Alive", "lastRequest"} :
    NWriters(p, f) = 0 \/ (NWriters(p, f) = 1 /\ NReaders(p, f) = 0)

\* Create ended with a successful test fetch for the proxy of record r.
Negotiated(r) == \E k \in 1..Len(attempts[r]) : attempts[r][k].res = "ok"

\* LoadProxies has returned (nil, or the scanner's error).
LoadReturned == lpc \in {"returned", "failed"}

\* C6: after LoadProxies returns on a fresh pool, pool.proxies is exactly
\* the records whose negotiation succeeded, in the order of the source.
C6_AdmitsExactlyNegotiated ==
  LoadReturned =>
    proxies = SelectSeq([j \in 1..Len(source) |-> j], LAMBDA r : Negotiated(r))

\* C6 witness: a source of two records, the first failing SOCKS5 and SOCKS4,
\* the second succeeding: the pool holds the second only.
C6_Witness ==
  /\ lpc = "returned"
  /\ Len(source) = 2
  /\ Len(attempts[1]) = 2 /\ ~Negotiated(1)
  /\ proxies = <<2>>

\* C7: Create makes at most two test fetches, SOCKS5 then SOCKS4, the second
\* only after the first failed; once Create is done, the URL is that of the
\* version that succeeded, and a proxy that failed both is not Alive.
C7_NegotiationOrder ==
  \A r \in ProxyIds :
    LET a == attempts[r] IN
    /\ Len(a) <= 2
    /\ Len(a) >= 1 => a[1].ver = 5
    /\ Len(a) = 2 => (a[2].ver = 4 /\ a[1].res # "ok")
    /\ cpc[r] \in {"L61", "done"} =>
         /\ Len(a) >= 1
         /\ IF a[Len(a)].res = "ok"
            THEN URL[r] = ProxyURL(a[Len(a)].ver, r) /\ Alive[r]
            ELSE Len(a) = 2 /\ ~Alive[r]

\* C7 witness: SOCKS5 failed, SOCKS4 succeeded, and LoadProxies returned
\* with the proxy bound to its SOCKS4 URL.
C7_Witness ==
  \E r \in ProxyIds :
    /\ lpc = "returned"
    /\ Len(attempts[r]) = 2 /\ attempts[r][2].res = "ok"
    /\ URL[r] = ProxyURL(4, r)
    /\ Alive[r]

\* C8: GetAvailableProxy examines the proxies once, in load order; the
\* proxy it returns is the first one that was alive and past its rate-limit
\* cooldown when examined, and nothing after it is examined or retested.
C8_FirstMatchWins ==
  \A c \in Callers :
    LET r == g[c] IN
    /\ r.pc \in ScanPcs =>
         /\ Len(r.log) = r.i - 1
         /\ \A j \in 1..Len(r.log) : r.log[j].p = proxies[j] /\ ~Qualified(r.log[j])
    /\ (r.pc \in {"L150", "got"} /\ r.sel # Nobody) =>
         \E k \in 1..Len(proxies) :
           /\ proxies[k] = r.sel
           /\ Len(r.log) = k
           /\ \A j \in 1..k : r.log[j].p = proxies[j] /\ (Qualified(r.log[j]) <=> j = k)

\* C8 witness: a call skipped the first proxy, launched a retest for it,
\* and returned the second.
C8_Witness ==
  \E c \in Callers :
    /\ g[c].pc \in {"L150", "got"}
    /\ Len(proxies) >= 2 /\ g[c].sel = proxies[2]
    /\ g[c].log[1].retest

C10_ReturnsOnlySuccess ==
  /\ [](\A c \in Callers :
         g[c].pc = "ret" =>
           /\ g[c].mode = "poolget"
           /\ g[c].err = "" /\ g[c].reqErr = "ok"
           /\ g[c].sel \in Admitted
           /\ g[c].body = <<PageURL, g[c].sel>>)
  /\ [][\A c \in Callers :
         g[c].mode = "poolget" /\ g'[c] # g[c] =>
           /\ g'[c].pc = "ret" => (g[c].pc = "L67" /\ g'[c].sel = g[c].sel)
           /\ (g[c].pc = "L67" /\ g'[c].pc # "ret") => (g'[c].pc = "L155" /\ g'[c].slept = 0)
           /\ (g[c].pc \in ScanPcs /\ g'[c].err = NoProxies) => (g'[c].pc = "L155" /\ g'[c].slept = 0)
           /\ (g[c].pc = "L155" /\ g'[c].pc # "L155") =>
                (g[c].slept >= SleepSeconds /\ g'[c].pc \in ScanPcs)]_vars

\* C10 witness: pool.Get returned a body.
C10_Witness ==
  \E c \in Callers : g[c].pc = "ret" /\ g[c].body # <<>>

\* The pool after LoadProxies returned, used by one goroutine.
InitLive == Init /\ \A c \in Callers : c > 1 => g[c].pc = "off"

\* ------------------------------------------------------- UpdateCounts
\* Mutant of UpdateCounts: the loop of lines 131-135 repeated here, keeping
\* only the proxies that are alive.
UpdateCountsPrune ==
  /\ lpc = "returned"
  /\ AliveCount' = CountAlive(proxies)
  /\ AvailableCount' = CountAvailable(proxies)
  /\ proxies' = Survivors(proxies)
  /\ UNCHANGED <<Alive, idle, launched, bgIn, g, newest, newestOk, lastDoneOk, routed>>
  /\ UNCHANGED <<source, scanErr, lpc, nextLine, lproxies, wg, cpc, ver, URL, attempts>>

\* pool.UpdateCounts() called on the loaded pool (lines 160-171): one pass
\* over pool.proxies, then the two counters are set.
UpdateCounts ==
  /\ lpc = "returned"
  /\ AliveCount' = CountAlive(proxies)
  /\ AvailableCount' = CountAvailable(proxies)
  /\ UNCHANGED <<proxies, Alive, idle, launched, bgIn, g, newest, newestOk, lastDoneOk, routed>>
  /\ UNCHANGED <<source, scanErr, lpc, nextLine, lproxies, wg, cpc, ver, URL, attempts>>

\* Every operation of the loaded pool, UpdateCounts included.
NextCounts ==
  \/ Next
  \/ UpdateCounts

\* A loaded pool smaller than the largest one, so that the counters' values
\* multiply a smaller state space.
InitCounts == Init /\ Len(proxies) < MaxProxies

SpecCounts == InitCounts /\ [][NextCounts]_vars

\* ------------------------------------------------------------- liveness
\* A step of caller c that its goroutine takes by itself once it is
\* scheduled: the scan, the fetch of pool.Get (line 150), the end of a
\* fetch (the client's timeout bounds it, line 55), the end of the sleep.
CallerStep(c) ==
  \/ ScanStep(c)
  \/ (g[c].mode = "poolget" /\ FetchStart(c))
  \/ \E o \in Outcomes : FetchFinish(c, o)
  \/ Wake(c)

\* Fair scheduling of the goroutines and advancing time.
Fairness ==
  /\ WF_vars(Tick)
  /\ \A c \in Callers : WF_vars(CallerStep(c))
  /\ \A p \in ProxyIds : WF_vars(RetestStart(p))
  /\ \A p \in ProxyIds : WF_vars(\E o \in Outcomes : RetestFinish(p, o))

SpecLive == InitLive /\ [][Next]_vars /\ Fairness

\* A fetch through p completes in this step.
Finishes(p) ==
  \/ bgIn'[p] < bgIn[p]
  \/ \E c \in Callers : g[c].pc = "L67" /\ g[c].sel = p /\ g'[c].pc # "L67"

\* Caller c is inside a call of pool.Get.
InPoolGet(c) == g[c].mode = "poolget" /\ g[c].pc \notin {"ret", "off", "idle"}

\* C11 (as stated): if some admitted proxy is such that every fetch through
\* it succeeds from some point on, then with fair scheduling and advancing
\* time every call of pool.Get eventually returns.
C11_PoolGetReturns ==
  \A p \in ProxyIds :
    (p \in Admitted /\ <>[][Finishes(p) => lastDoneOk'[p]]_vars)
      => \A c \in Callers : InPoolGet(c) ~> (g[c].pc = "ret")

\* ------------------------------------------- selection and its retests
\* A pool in use: each admitted proxy alive or dead, its last fetch
\* completed any number of seconds ago, no fetch in flight.
InitRetest ==
  /\ \E n \in 1..MaxProxies, a \in 1..NCallers :
       /\ n + a <= MaxLoad
       /\ proxies = [j \in 1..n |-> j]
       /\ g = [c \in Callers |-> IF c <= a THEN Idle ELSE Off]
       /\ Alive \in [ProxyIds -> BOOLEAN]
       /\ \A p \in ProxyIds : p > n => ~Alive[p]
       /\ idle \in [ProxyIds -> 0..IdleCap]
       /\ \A p \in ProxyIds : p > n => idle[p] = IdleCap
       /\ newestOk = [p \in ProxyIds |-> p > n \/ Alive[p]]
       /\ lastDoneOk = [p \in ProxyIds |-> p > n \/ Alive[p]]
       /\ Loaded(n)
  /\ launched = [p \in ProxyIds |-> 0]
  /\ bgIn = [p \in ProxyIds |-> 0]
  /\ newest = [p \in ProxyIds |-> Nobody]
  /\ routed = [p \in ProxyIds |-> FALSE]

\* A goroutine's one and only call of GetAvailableProxy.
CallOnce(c) == g[c].pc = "idle" /\ CallGetAvailableProxy(c)

\* Goroutines that call GetAvailableProxy once and nothing else, and the
\* retest goroutines these calls launch.
NextRetest ==
  \/ Tick
  \/ \E c \in Callers : CallOnce(c)
  \/ \E c \in Callers : ScanRetestTime(c)
  \/ \E c \in Callers : ScanRetestAlive(c)
  \/ \E c \in Callers : ScanRateTime(c)
  \/ \E c \in Callers : ScanRateAlive(c)
  \/ \E p \in ProxyIds : RetestStart(p)
  \/ \E p \in ProxyIds, o \in Outcomes : RetestFinish(p, o)

SpecRetest == InitRetest /\ [][NextRetest]_vars /\ Fairness

\* The calls of GetAvailableProxy that ran line 93 for proxy p.
LaunchedFor(p) ==
  {c \in Callers :
     \/ \E j \in 1..Len(g[c].log) : g[c].log[j].p = p /\ g[c].log[j].retest
     \/ g[c].pc \in {"L95t", "L95a"} /\ proxies[g[c].i] = p /\ g[c].went}

\* C12: when a call of GetAvailableProxy examines a proxy and line 92 finds
\* it idle for more than RetestDelay and dead, the call launches one retest
\* goroutine for it and goes on to line 95 without waiting; it launches
\* nothing otherwise and examines each proxy once, so there are never more
\* retests of a proxy than calls that found it so.  A retest that succeeds
\* sets Alive, and with no further call a proxy with a launched retest
\* becomes alive by the retest goroutine's own steps, unless its retests
\* have all completed and the last one failed.
C12_RetestLaunchedOnce ==
  /\ [][\A c \in Callers :
          (g'[c] # g[c] /\ g[c].pc \in ScanPcs) =>
            LET p == proxies[g[c].i] IN
            /\ g[c].pc = "L92t" => (g'[c].pc = "L92a" <=> idle[p] > RetestDelay)
            /\ launched' = IF g[c].pc = "L92a" /\ ~Alive[p]
                            THEN [launched EXCEPT ![p] = @ + 1] ELSE launched
            /\ g[c].pc = "L92a" => (g'[c].pc = "L95t" /\ g'[c].i = g[c].i
                                     /\ g'[c].went = ~Alive[p])
            /\ g'[c].pc \in {"L92t", "L92a"} /\ g[c].pc # "L92t" => g'[c].i = g[c].i + 1]_vars
  /\ [](\A p \in ProxyIds : launched[p] + bgIn[p] <= Cardinality(LaunchedFor(p)))
  /\ [][\A p \in ProxyIds : (bgIn'[p] < bgIn[p] /\ lastDoneOk'[p]) => Alive'[p]]_vars
  /\ \A p \in ProxyIds :
       (launched[p] > 0) ~>
         (Alive[p] \/ (launched[p] = 0 /\ bgIn[p] = 0 /\ ~lastDoneOk[p]))

\* C12 witness: a single call found a proxy dead and idle, launched its one
\* retest and returned; the retest ran and the proxy is alive.
C12_Witness ==
  \E c \in Callers : \E j \in 1..Len(g[c].log) :
    LET p == g[c].log[j].p IN
    /\ g[c].pc = "got"
    /\ g[c].log[j].retest
    /\ Cardinality(LaunchedFor(p)) = 1
    /\ launched[p] = 0 /\ bgIn[p] = 0
    /\ Alive[p] /\ idle[p] = 0

\* C13 (as stated): a malformed record (no colon, or a port that is no
\* number) does not abort the load: no Proxy is built or negotiated from it,
\* LoadProxies does not end in a panic, and when it returns every well-formed
\* record has been negotiated and is admitted exactly if it succeeded.
C13_MalformedSkipped ==
  /\ lpc # "panic"
  /\ \A r \in 1..Len(source) :
       source[r] # "ok" => (cpc[r] = "none" /\ attempts[r] = <<>> /\ r \notin Admitted)
  /\ LoadReturned =>
       \A r \in 1..Len(source) :
         source[r] = "ok" => (Len(attempts[r]) >= 1 /\ (r \in Admitted <=> Negotiated(r)))

Negotiating == {r \in ProxyIds : cpc[r] \in {"L49", "L67", "L61"}}

\* LoadProxies is past wg.Wait().
PastBarrier == lpc \in {"L131", "L137", "returned", "failed"}

\* C15: LoadProxies launches one negotiation goroutine per record it
\* appends, counted by the WaitGroup; it does not get past wg.Wait(), reads
\* no Alive for admission and admits no proxy while a launched negotiation
\* is unfinished; and during the load the fields of a proxy (URL, Alive,
\* lastRequest) are written only by steps of that proxy's own negotiation.
C15_FanOutFanIn ==
  /\ [](/\ lproxies = [j \in 1..(nextLine - 1) |-> j]
        /\ \A r \in ProxyIds : (cpc[r] # "none") <=> (r < nextLine)
        /\ wg = Cardinality(Negotiating)
        /\ PastBarrier => (Negotiating = {} /\ nextLine = Len(source) + 1)
        /\ ~PastBarrier => proxies = <<>>)
  /\ [][/\ proxies' # proxies => (lpc = "L131" /\ Negotiating = {})
        /\ \A r \in ProxyIds :
             (Alive'[r] # Alive[r] \/ URL'[r] # URL[r] \/ idle'[r] < idle[r])
               => (cpc[r] \in {"L49", "L67"} /\ cpc'[r] # cpc[r] /\ ~PastBarrier
                   /\ \A q \in ProxyIds \ {r} : cpc'[q] = cpc[q])]_vars

\* C15 witness: two negotiations were launched, the first failed with both
\* versions, the second succeeded with SOCKS4; LoadProxies waited for both
\* and admitted the second only.
C15_Witness ==
  /\ lpc = "L137"
  /\ Len(lproxies) = 2
  /\ Len(attempts[1]) = 2 /\ ~Negotiated(1)
  /\ Len(attempts[2]) = 2 /\ Negotiated(2)
  /\ proxies = <<2>>

\* A retest of p completes successfully in this step.
RetestSucceeds(p) == bgIn'[p] < bgIn[p] /\ lastDoneOk'[p]

\* Alive and past the rate-limit cooldown: what line 95 asks of a proxy.
Available(p) == Alive[p] /\ idle[p] > RateLimit

\* C16 (as stated): when a retest of a proxy succeeds, the proxy is alive
\* and at once eligible for selection (AliveAvailable): line 95 would
\* return it.
C16_RetestMakesAvailable ==
  [][\A p \in Admitted : RetestSucceeds(p) => (Alive'[p] /\ idle'[p] > RateLimit)]_vars

\* C16 (amended): when a retest of a proxy succeeds, the proxy is alive, and
\* its cooldown clock is where the start of the latest fetch through it
\* (this retest's own line 66, or a later one) left it: the retest set it
\* to zero when it started and its completion does not touch it.  So the
\* proxy is eligible at that instant exactly if more than RateLimit seconds
\* have passed since that start, and awaits its cooldown otherwise.
C16_RetestMakesAliveCooling ==
  /\ [][\A p \in Admitted :
          RetestSucceeds(p) =>
            /\ Alive'[p]
            /\ idle'[p] = idle[p]
            /\ Available(p)' <=> idle[p] > RateLimit]_vars
  /\ [][\A p \in Admitted :
          bgIn'[p] > bgIn[p] => (idle'[p] = 0 /\ ~Available(p)' /\ Alive'[p] = Alive[p])]_vars

\* C16 witness: a call launched a retest of a dead proxy and went to sleep;
\* the retest has succeeded within the second, and the proxy is alive but
\* not yet past its cooldown.
C16_Witness ==
  \E c \in Callers : \E j \in 1..Len(g[c].log) :
    LET p == g[c].log[j].p IN
    /\ g[c].pc = "L155" /\ g[c].err = NoProxies
    /\ g[c].log[j].retest
    /\ launched[p] = 0 /\ bgIn[p] = 0
    /\ newest[p] = Nobody /\ newestOk[p]
    /\ Alive[p] /\ idle[p] = 0 /\ ~Available(p)

\* C17 (as stated): the thresholds are inclusive: the left operand of line
\* 95 holds for a proxy idle exactly RateLimit seconds (so an alive one is
\* returned), and the left operand of line 92 holds for a proxy idle exactly
\* RetestDelay seconds (so a dead one gets a retest).
C17_ThresholdsInclusive ==
  [][\A c \in Callers :
       (g'[c] # g[c] /\ g[c].pc \in {"L92t", "L95t"}) =>
         LET p == proxies[g[c].i] IN
         /\ g[c].pc = "L95t" => (g'[c].pc = "L95a" <=> idle[p] >= RateLimit)
         /\ g[c].pc = "L92t" => (g'[c].pc = "L92a" <=> idle[p] >= RetestDelay)]_vars

\* C17 (amended): the thresholds are exclusive: GetAvailableProxy goes on to
\* read Alive at line 95 (and returns the proxy if it is alive) exactly when
\* the proxy has been idle more than RateLimit seconds, and at line 92 (and
\* launches a retest if it is dead) exactly when it has been idle more than
\* RetestDelay seconds; a proxy idle exactly RateLimit seconds is passed
\* over and one idle exactly RetestDelay seconds is not retested.
C17_ThresholdsExclusive ==
  [][\A c \in Callers :
       (g'[c] # g[c] /\ g[c].pc \in ScanPcs) =>
         LET p == proxies[g[c].i] IN
         /\ g[c].pc = "L95t" => /\ g'[c].pc = "L95a" <=> idle[p] > RateLimit
                                /\ idle[p] = RateLimit => g'[c].sel # p
         /\ g[c].pc = "L92t" => /\ g'[c].pc = "L92a" <=> idle[p] > RetestDelay
                                /\ idle[p] = RetestDelay => g'[c].pc = "L95t"
         /\ g[c].pc = "L95a" => (g'[c].sel = p <=> Alive[p])
         /\ g[c].pc = "L92a" => (launched'[p] = launched[p] + 1 <=> ~Alive[p])
         /\ g[c].pc # "L92a" => launched' = launched]_vars

\* C17 witness: the pool's one proxy is alive and has been idle exactly
\* RateLimit seconds; a call examined it this very second and returned
\* "no proxies available".
C17_Witness ==
  \E c \in Callers :
    /\ Len(proxies) = 1
    /\ g[c].pc = "L155" /\ g[c].slept = 0 /\ g[c].err = NoProxies
    /\ Len(g[c].log) = 1 /\ ~g[c].log[1].past
    /\ Alive[proxies[1]] /\ idle[proxies[1]] = RateLimit
    /\ newest[proxies[1]] = Nobody

\* A fetch through p starts in this step (line 66 runs).
Starts(p) ==
  \/ bgIn'[p] > bgIn[p]
  \/ \E c \in Callers : g[c].pc # "L67" /\ g'[c].pc = "L67" /\ g'[c].sel = p

\* Caller c can go on: its next step is enabled, or is waiting for the
\* second of line 155 to pass, or for a goroutine slot of the model.
CanGoOn(c) ==
  CASE g[c].pc \in {"idle", "ret", "got"} -> ENABLED CallPoolGet(c) /\ ENABLED CallGetAvailableProxy(c)
    [] g[c].pc \in ScanPcs -> \/ ENABLED ScanStep(c)
                              \/ launched[proxies[g[c].i]] + bgIn[proxies[g[c].i]] >= MaxBg
    [] g[c].pc = "L150" -> ENABLED FetchStart(c)
    [] g[c].pc = "L67" -> \A o \in Outcomes : ENABLED FetchFinish(c, o)
    [] g[c].pc = "L155" -> ENABLED Wake(c) \/ g[c].slept < SleepSeconds
    [] OTHER -> g[c].pc = "off"

\* C18: a step of a fetch through proxy p (its start at line 66, its
\* completion with any outcome) changes, of the pool, only lastRequest of p
\* (the start) or Alive of p (the completion): Alive and lastRequest of
\* every other proxy, pool.proxies, the URLs and the counters are unchanged;
\* a failed fetch is handed to its caller as an error value, and after it
\* every goroutine can still go on.
C18_FetchIsLocal ==
  /\ [][\A p \in ProxyIds :
          (Starts(p) \/ Finishes(p)) =>
            /\ \A q \in ProxyIds \ {p} : Alive'[q] = Alive[q] /\ idle'[q] = idle[q]
            /\ proxies' = proxies /\ URL' = URL
            /\ AliveCount' = AliveCount /\ AvailableCount' = AvailableCount
            /\ Starts(p) => (Alive'[p] = Alive[p] /\ idle'[p] = 0)
            /\ Finishes(p) => (idle'[p] = idle[p] /\ Alive'[p] = lastDoneOk'[p])
            /\ \A c \in Callers :
                 (g[c].pc = "L67" /\ g'[c].pc # "L67" /\ ~lastDoneOk'[p]) =>
                   (g'[c].pc \in {"L155", "idle"} /\ g'[c].body = <<>>)]_vars
  /\ [](\A c \in Callers : CanGoOn(c))

\* C18 witness: pool.Get fetched through the first of two proxies and the
\* fetch failed: the first proxy is dead, its clock at the fetch's start;
\* the second is alive as before, its clock untouched.
C18_Witness ==
  \E c \in Callers :
    /\ Len(proxies) = 2
    /\ g[c].pc = "L155" /\ g[c].sel = proxies[1]
    /\ g[c].reqErr \in Outcomes \ {"ok"}
    /\ ~Alive[proxies[1]] /\ idle[proxies[1]] = 0
    /\ Alive[proxies[2]] /\ idle[proxies[2]] = IdleCap
    /\ newest[proxies[2]] = Nobody /\ launched[proxies[2]] = 0

\* One second passes in this step: every clock advances, none is reset.
Ticks == idle' = [p \in ProxyIds |-> Min(idle[p] + 1, IdleCap)]

\* C19: every fetch through a proxy, by a caller or by a retest goroutine,
\* resets the proxy's clock when it starts (line 66), before the request is
\* in flight and leaving Alive as it is; its completion, with any outcome,
\* writes Alive and leaves the clock alone; nothing else resets a clock.  So
\* from the start of a fetch the clock counts the seconds since that start
\* (or a later one), in flight or not: right after the start the proxy is
\* neither past its cooldown nor due for a retest.
C19_StampAtStartOnly ==
  [][\A p \in ProxyIds :
       /\ Starts(p) => /\ idle'[p] = 0
                       /\ Alive'[p] = Alive[p]
                       /\ newest'[p] # Nobody
                       /\ ~PastRateLimit(p)' /\ ~PastRetestDelay(p)'
       /\ Finishes(p) => idle'[p] = idle[p]
       /\ idle'[p] # idle[p] => (Starts(p) \/ Ticks)
       /\ Alive'[p] # Alive[p] => (Finishes(p) /\ ~Starts(p))]_vars

\* C19 witness: a caller's fetch through an alive proxy is still in flight,
\* no other fetch started after it, and the proxy's clock already shows
\* more than RateLimit seconds.
C19_Witness ==
  \E c \in Callers :
    /\ g[c].pc = "L67"
    /\ newest[g[c].sel] = c
    /\ Alive[g[c].sel]
    /\ idle[g[c].sel] = RateLimit + 1

\* C20 (as stated): at any time at most one retest goroutine exists for a
\* given proxy, launched (line 93) and not yet completed.
C20_OneRetestInFlight ==
  \A p \in ProxyIds : launched[p] + bgIn[p] <= 1
====
